---- MODULE Spec2Model ----
(***************************************************************************)
(* A model of build.py, the ungoogled-chromium build script: one run of    *)
(* the script is a command (init, sync, prepare, build, clean) executed as *)
(* a linear sequence of file-system operations and external processes.     *)
(* The state is the configuration record, the position in the script, the  *)
(* file system, the chromium git checkout, and the side effects performed  *)
(* so far by the current run.                                              *)
(***************************************************************************)
EXTENDS Integers, Sequences, FiniteSets, TLC

VARIABLES
    config,        \* the Config record built from the command line
    pc,            \* position in the script
    fs,            \* file system: absolute path -> "file" | "dir"
    fs0,           \* file system when the current run started
    repo,          \* chromium checkout: [shallow, rev]
    log,           \* side effects of the current run, in order
    err,           \* message of the exception that ended the run, or "none"
    exitcode,      \* exit status of the script, -1 while it runs
    reply,         \* clean: the answer read by input()
    rev,           \* set_revision: local rev
    shallow,       \* set_revision: local shallow
    chromium_ref,  \* sync: local chromium_ref
    distro_name,   \* sync: local distro_name
    gn_args,       \* build: local gn_args (an insertion-ordered dict)
    gn_args_str,   \* build: local gn_args_str
    args_gn,       \* content of the args.gn file build wrote
    flags_gn,      \* the key=value lines of ungoogled-chromium/flags.gn
    prev           \* command of the previous completed run, or "none"

vars == <<config, pc, fs, fs0, repo, log, err, exitcode, reply, rev, shallow,
          chromium_ref, distro_name, gn_args, gn_args_str, args_gn, flags_gn, prev>>

-----------------------------------------------------------------------------
(* Bounds *)

\* external processes return a status in 0..MaxRet
MaxRet == 2
\* number of keys of UserKeyPool a --gn-args override may name
NumUserKeys == 4
\* number of keys of FileKeyPool flags.gn may define
NumFileKeys == 3

RetCodes == 0..MaxRet

-----------------------------------------------------------------------------
(* Paths: os.path on POSIX.  A path is absolute or relative and is a       *)
(* sequence of components.                                                 *)

Rel(parts) == [abs |-> FALSE, parts |-> parts]
Abs(parts) == [abs |-> TRUE, parts |-> parts]

\* os.getcwd(): the script never changes directory
CWD == <<"work">>
\* the user's home directory, for ~ expansion
HOME == <<"home">>

SRC_DIR == Rel(<<"src">>)
OUTPUT_BASE_DIR == Rel(<<"out">>)

\* os.path.join(a, b): an absolute b discards a
Join(a, b) == IF b.abs THEN b ELSE [abs |-> a.abs, parts |-> a.parts \o b.parts]

RECURSIVE NormParts(_, _)
\* os.path.normpath on the components of an absolute path
NormParts(acc, parts) ==
    IF parts = <<>> THEN acc
    ELSE LET c == Head(parts)
             acc2 == IF c = "." THEN acc
                     ELSE IF c = ".."
                          THEN (IF acc = <<>> THEN acc ELSE SubSeq(acc, 1, Len(acc) - 1))
                          ELSE Append(acc, c)
         IN NormParts(acc2, Tail(parts))

\* os.path.abspath(p) evaluated in directory cwd: the key of p in fs
AbsPathFrom(cwd, p) == NormParts(<<>>, IF p.abs THEN p.parts ELSE cwd \o p.parts)
AbsPath(p) == AbsPathFrom(CWD, p)

\* config.shell_expand_abs_path: expand ~ and make absolute
ShellExpandAbsPath(p) ==
    IF ~p.abs /\ p.parts # <<>> /\ Head(p.parts) = "~"
    THEN NormParts(<<>>, HOME \o Tail(p.parts))
    ELSE AbsPath(p)

-----------------------------------------------------------------------------
(* File system *)

IsPrefix(a, b) == Len(a) <= Len(b) /\ SubSeq(b, 1, Len(a)) = a
Prefixes(a) == {SubSeq(a, 1, k) : k \in 1..Len(a)}

\* os.path.exists / os.path.isdir
Exists(p) == AbsPath(p) \in DOMAIN fs
IsDir(p) == Exists(p) /\ fs[AbsPath(p)] = "dir"

\* rm -rf a, shutil.rmtree(a): a and everything below it is gone
RemoveTree(f, a) == [q \in {x \in DOMAIN f : ~IsPrefix(a, x)} |-> f[q]]

\* os.remove(a)
RemoveFile(f, a) == [q \in DOMAIN f \ {a} |-> f[q]]

\* open(a, 'w'), or a tool creating the file a
WriteFile(f, a) == [q \in DOMAIN f \cup {a} |-> IF q = a THEN "file" ELSE f[q]]

\* os.makedirs(a, exist_ok=True) fails when a component is a file
MakeDirsFails(f, a) == \E q \in Prefixes(a) : q \in DOMAIN f /\ f[q] = "file"
MakeDirs(f, a) ==
    [q \in DOMAIN f \cup Prefixes(a) |-> IF q \in DOMAIN f THEN f[q] ELSE "dir"]

\* a file system holding the directories ds and the files fl
MkFs(ds, fl) == [q \in ds \cup fl |-> IF q \in fl THEN "file" ELSE "dir"]

-----------------------------------------------------------------------------
(* Side effects and control flow *)

\* one side effect: op is "exec" (an external process, with its exit
\* status rc) or a file-system change "write", "remove", "mkdir", "rmtree"
Ev(op, cmd, arg, rc) == [op |-> op, cmd |-> cmd, arg |-> arg, rc |-> rc]

Execs == {i \in 1..Len(log) : log[i].op = "exec"}
ExecsOf(cmd) == {i \in Execs : log[i].cmd = cmd}

\* an exception nobody catches: the interpreter prints it and exits with 1
Raise_ExitZero(e) == pc' = "exit" /\ err' = e /\ exitcode' = 0
Raise(e) == pc' = "exit" /\ err' = e /\ exitcode' = 1

\* continue at next; falling off the end of the command exits with 0
Goto(next) ==
    /\ pc' = next
    /\ err' = err
    /\ exitcode' = IF next = "exit" THEN 0 ELSE exitcode

\* sp.run(cmd): the exit status is returned, not checked
Run(cmd, arg, rc, next) ==
    /\ log' = Append(log, Ev("exec", cmd, arg, rc))
    /\ Goto(next)

CheckCall_Unchecked(pre, cmd, arg, rc, next) ==
    /\ log' = Append(log \o pre, Ev("exec", cmd, arg, rc))
    /\ Goto(next)
\* sp.check_call(cmd), sp.check_output(cmd): non-zero raises CalledProcessError.
\* pre: the file-system changes the step made just before the call
CheckCall(pre, cmd, arg, rc, next) ==
    /\ log' = Append(log \o pre, Ev("exec", cmd, arg, rc))
    /\ IF rc = 0 THEN Goto(next) ELSE Raise("CalledProcessError")

\* groups of variables an operation leaves alone
run_env == <<config, fs0, flags_gn, prev>>
locals_clean == <<reply>>
locals_sync == <<rev, shallow, chromium_ref, distro_name>>
locals_build == <<gn_args, gn_args_str, args_gn>>

-----------------------------------------------------------------------------
(* Configuration *)

COMMAND == {"init", "sync", "prepare", "build", "clean"}
OS == {"linux", "android", "windows"}

DefaultConfig ==
    [command |-> "init", target_os |-> "linux", target_cpu |-> "x64",
     debug |-> FALSE, shallow |-> FALSE, direct_download |-> FALSE,
     reset |-> FALSE, install_build_deps |-> FALSE, cc_wrapper |-> "None",
     output_base_dir |-> OUTPUT_BASE_DIR, gn_args |-> <<>>]

\* values of --output-dir
OutputDirs ==
    {OUTPUT_BASE_DIR, Rel(<<".", "out">>), Rel(<<"myout">>),
     Abs(<<"work", "out">>), Abs(<<"data", "out">>), Rel(<<"~", "out">>)}

DEPOT_TOOLS == Rel(<<"depot_tools">>)
DOMSUB_CACHE == Rel(<<"domsubcache.tar.gz">>)
FLAGS_GN == Rel(<<"ungoogled-chromium", "flags.gn">>)

BaseDirs == {CWD, AbsPath(SRC_DIR)}

-----------------------------------------------------------------------------
(* clean *)

ConfigsClean == {[DefaultConfig EXCEPT !.command = "clean", !.output_base_dir = o] :
                    o \in OutputDirs}

\* before clean: the output directory is absent, or holds a build's output
FsClean(c) ==
    {MkFs(BaseDirs, {AbsPath(Rel(<<"notes.txt">>))}),
     MkFs(BaseDirs \cup Prefixes(AbsPath(c.output_base_dir))
                   \cup {Append(AbsPath(c.output_base_dir), "Release_linux_x64")},
          {AbsPath(Rel(<<"notes.txt">>))})}

Replies == {"y", "n", "Y", "yes"}

CleanCheck_AnyYes ==
    /\ pc = "clean"
    /\ IF ~Exists(config.output_base_dir)
       THEN Goto("exit") /\ reply' = reply
       ELSE IF ShellExpandAbsPath(config.output_base_dir)
                    # ShellExpandAbsPath(OUTPUT_BASE_DIR)
            THEN \E r \in Replies :
                    /\ reply' = r
                    /\ IF r \notin {"y", "Y", "yes"} THEN Goto("exit") ELSE Goto("clean_rm")
            ELSE Goto("clean_rm") /\ reply' = reply
    /\ UNCHANGED <<run_env, fs, repo, log, locals_sync, locals_build>>
\* lines 26-34: the existence test, the comparison with the default and the prompt
CleanCheck ==
    /\ pc = "clean"
    /\ IF ~Exists(config.output_base_dir)
       THEN Goto("exit") /\ reply' = reply
       ELSE IF ShellExpandAbsPath(config.output_base_dir)
                    # ShellExpandAbsPath(OUTPUT_BASE_DIR)
            THEN \E r \in Replies :
                    /\ reply' = r
                    /\ IF r # "y" THEN Goto("exit") ELSE Goto("clean_rm")
            ELSE Goto("clean_rm") /\ reply' = reply
    /\ UNCHANGED <<run_env, fs, repo, log, locals_sync, locals_build>>

\* line 36: rm -rf config.output_base_dir, run in the working directory
CleanRm ==
    /\ pc = "clean_rm"
    /\ \E rc \in RetCodes :
          /\ CheckCall(<<>>, "rm -rf", AbsPath(config.output_base_dir), rc, "exit")
          /\ fs' = IF rc = 0 THEN RemoveTree(fs, AbsPath(config.output_base_dir)) ELSE fs
    /\ UNCHANGED <<run_env, repo, locals_clean, locals_sync, locals_build>>

-----------------------------------------------------------------------------
(* init *)

\* config.git_maybe_checkout(url, dir): bring the checkout in dir up to date;
\* a failing git command is propagated
GitMaybeCheckout(pre, dir, rc, next) ==
    CheckCall(pre, "git_maybe_checkout", AbsPath(dir), rc, next)

Revs == {"rTag", "rOtherTag", "rUntagged"}

ConfigsInit == {[DefaultConfig EXCEPT !.command = "init", !.shallow = s] : s \in BOOLEAN}

FsInit ==
    {MkFs({CWD} \cup ds, fl) :
        ds \in SUBSET {AbsPath(DEPOT_TOOLS), AbsPath(SRC_DIR)},
        fl \in {{}, {AbsPath(DEPOT_TOOLS)}}}

\* lines 41-47: remove an old depot_tools, then clone it
InitDepotTools ==
    /\ pc = "init"
    /\ LET d == AbsPath(DEPOT_TOOLS) IN
       IF Exists(DEPOT_TOOLS) /\ ~IsDir(DEPOT_TOOLS)
       THEN \* shutil.rmtree of a regular file
            /\ Raise("NotADirectoryError")
            /\ UNCHANGED <<fs, log>>
       ELSE \E rc \in RetCodes :
            /\ GitMaybeCheckout(IF Exists(DEPOT_TOOLS)
                                THEN <<Ev("rmtree", "depot_tools", d, 0)>> ELSE <<>>,
                                DEPOT_TOOLS, rc, "init_clone_src")
            /\ fs' = IF rc = 0 THEN MakeDirs(RemoveTree(fs, d), d)
                     ELSE RemoveTree(fs, d)
    /\ UNCHANGED <<run_env, repo, locals_clean, locals_sync, locals_build>>

\* lines 50-59: remove an old src, then git clone [--depth 1 --no-tags] -b tag
InitCloneSrc ==
    /\ pc = "init_clone_src"
    /\ LET d == AbsPath(SRC_DIR) IN
       \E rc \in RetCodes :
            /\ CheckCall(IF Exists(SRC_DIR) THEN <<Ev("rmtree", "src", d, 0)>> ELSE <<>>,
                         "git clone",
                         IF config.shallow THEN <<"--depth", "1", "--no-tags">> ELSE <<>>,
                         rc, "exit")
            /\ fs' = IF rc = 0 THEN MakeDirs(RemoveTree(fs, d), d)
                     ELSE RemoveTree(fs, d)
            /\ repo' = IF rc = 0 THEN [shallow |-> config.shallow, rev |-> "rTag"]
                       ELSE repo
    /\ UNCHANGED <<run_env, locals_clean, locals_sync, locals_build>>

-----------------------------------------------------------------------------
(* set_revision *)

SetRevUnchanged == UNCHANGED <<run_env, fs, locals_clean, locals_build, distro_name>>

\* lines 70-72: git rev-parse HEAD; a shallow configuration returns at once
SetRevRevParse ==
    /\ pc = "set_revision"
    /\ \E rc \in RetCodes :
          /\ CheckCall(<<>>, "git rev-parse HEAD", <<>>, rc,
                       IF config.shallow THEN "write_gclient" ELSE "is_shallow")
          /\ rev' = IF rc = 0 THEN repo.rev ELSE rev
          /\ chromium_ref' = IF rc = 0 /\ config.shallow THEN repo.rev ELSE chromium_ref
    /\ UNCHANGED <<repo, shallow>>
    /\ SetRevUnchanged

SetRevIsShallow_Ignore ==
    /\ pc = "is_shallow"
    /\ \E rc \in RetCodes :
          /\ CheckCall(<<>>, "git rev-parse --is-shallow-repository", <<>>, rc, "describe")
          /\ shallow' = IF rc = 0 THEN (IF repo.shallow THEN "true" ELSE "false")
                        ELSE shallow
    /\ UNCHANGED <<repo, rev, chromium_ref>>
    /\ SetRevUnchanged
\* lines 75-78: ask git whether the repository is shallow, fail if it is
SetRevIsShallow ==
    /\ pc = "is_shallow"
    /\ \E rc \in RetCodes :
          /\ shallow' = IF rc = 0 THEN (IF repo.shallow THEN "true" ELSE "false")
                        ELSE shallow
          /\ IF rc = 0 /\ repo.shallow
             THEN /\ log' = Append(log, Ev("exec", "git rev-parse --is-shallow-repository",
                                           <<>>, rc))
                  /\ Raise("Cannot set revision on a shallow repository!")
             ELSE CheckCall(<<>>, "git rev-parse --is-shallow-repository", <<>>, rc,
                            "describe")
    /\ UNCHANGED <<repo, rev, chromium_ref>>
    /\ SetRevUnchanged

\* git describe --tags --exact-match: 0 and the tag's name when rev is tagged
DescribeRets == IF rev \in {"rTag", "rOtherTag"} THEN RetCodes ELSE RetCodes \ {0}
DescribeStdout == IF rev = "rTag" THEN "chromium_version" ELSE "other_tag"

\* lines 81-94: compare the tag of rev with chromium_version
SetRevDescribe ==
    /\ pc = "describe"
    /\ \E rc \in DescribeRets :
          Run("git describe", <<>>, rc,
              IF rc # 0 \/ DescribeStdout # "chromium_version"
              THEN (IF config.reset THEN "git_clean" ELSE "git_pull")
              ELSE "rev_parse_new")
    /\ UNCHANGED <<repo, rev, shallow, chromium_ref>>
    /\ SetRevUnchanged

\* line 89
SetRevClean ==
    /\ pc = "git_clean"
    /\ \E rc \in RetCodes : CheckCall(<<>>, "git clean", <<>>, rc, "git_reset")
    /\ UNCHANGED <<repo, rev, shallow, chromium_ref>>
    /\ SetRevUnchanged

\* line 90
SetRevReset ==
    /\ pc = "git_reset"
    /\ \E rc \in RetCodes : CheckCall(<<>>, "git reset --hard", <<>>, rc, "git_pull")
    /\ UNCHANGED <<repo, rev, shallow, chromium_ref>>
    /\ SetRevUnchanged

\* line 91: git pull may move HEAD to a newer, untagged commit
SetRevPull ==
    /\ pc = "git_pull"
    /\ \E rc \in RetCodes :
          /\ CheckCall(<<>>, "git pull", <<>>, rc, "git_checkout")
          /\ \E r \in (IF rc = 0 THEN {repo.rev, "rUntagged"} ELSE {repo.rev}) :
                repo' = [repo EXCEPT !.rev = r]
    /\ UNCHANGED <<rev, shallow, chromium_ref>>
    /\ SetRevUnchanged

\* line 92: git checkout chromium_version
SetRevCheckout ==
    /\ pc = "git_checkout"
    /\ \E rc \in RetCodes :
          /\ CheckCall(<<>>, "git checkout", <<"chromium_version">>, rc, "rev_parse_new")
          /\ repo' = IF rc = 0 THEN [repo EXCEPT !.rev = "rTag"] ELSE repo
    /\ UNCHANGED <<rev, shallow, chromium_ref>>
    /\ SetRevUnchanged

\* lines 96-97: new_rev is returned to sync
SetRevRevParseNew ==
    /\ pc = "rev_parse_new"
    /\ \E rc \in RetCodes :
          /\ CheckCall(<<>>, "git rev-parse HEAD", <<>>, rc, "write_gclient")
          /\ chromium_ref' = IF rc = 0 THEN repo.rev ELSE chromium_ref
    /\ UNCHANGED <<repo, rev, shallow>>
    /\ SetRevUnchanged

-----------------------------------------------------------------------------
(* sync *)

Distros == {"debian", "ubuntu", "arch"}

ConfigsSync ==
    {[DefaultConfig EXCEPT !.command = "sync", !.target_os = o, !.shallow = s,
                           !.reset = r, !.install_build_deps = i] :
        o \in OS, s \in BOOLEAN, r \in BOOLEAN, i \in BOOLEAN}

\* depot_tools is absent, a directory or a regular file
FsDepot ==
    {MkFs(BaseDirs, {}), MkFs(BaseDirs \cup {AbsPath(DEPOT_TOOLS)}, {}),
     MkFs(BaseDirs, {AbsPath(DEPOT_TOOLS)})}

Repos == [shallow : BOOLEAN, rev : Revs]

SyncUnchanged == UNCHANGED <<run_env, repo, locals_clean, locals_build>>

SyncCheckDepotTools_Skip ==
    /\ pc = "sync"
    /\ Goto("set_revision")
    /\ UNCHANGED <<fs, log, locals_sync>>
    /\ SyncUnchanged
\* lines 144-148: depot_tools must be a directory
SyncCheckDepotTools ==
    /\ pc = "sync"
    /\ IF ~Exists(DEPOT_TOOLS) \/ ~IsDir(DEPOT_TOOLS)
       THEN Raise("Cannot find depot_tools!")
       ELSE Goto("set_revision")
    /\ UNCHANGED <<fs, log, locals_sync>>
    /\ SyncUnchanged

\* lines 155-156: the manifest, with @@TARGET_OS@@ replaced
GclientContent(os) == <<"target_os", os>>

SyncWriteGclient ==
    /\ pc = "write_gclient"
    /\ fs' = WriteFile(fs, AbsPath(Rel(<<".gclient">>)))
    /\ log' = Append(log, Ev("write", ".gclient", GclientContent(config.target_os), 0))
    /\ Goto("gclient_sync")
    /\ UNCHANGED locals_sync
    /\ SyncUnchanged

\* lines 159-167
ExtraArgs ==
    (IF config.reset
     THEN <<"--revision", chromium_ref, "--force", "--upstream", "--reset">> ELSE <<>>)
    \o (IF config.shallow THEN <<"--shallow">> ELSE <<"--with_tags", "--with_branch_heads">>)

SyncGclientSync_BeforeManifest ==
    /\ pc = "write_gclient"
    /\ \E rc \in RetCodes : CheckCall(<<>>, "gclient sync", ExtraArgs, rc, "gclient_runhooks")
    /\ UNCHANGED <<fs, locals_sync>>
    /\ SyncUnchanged
\* line 169
SyncGclientSync ==
    /\ pc = "gclient_sync"
    /\ \E rc \in RetCodes : CheckCall(<<>>, "gclient sync", ExtraArgs, rc, "gclient_runhooks")
    /\ UNCHANGED <<fs, locals_sync>>
    /\ SyncUnchanged

\* line 172
SyncRunHooks ==
    /\ pc = "gclient_runhooks"
    /\ \E rc \in RetCodes : CheckCall(<<>>, "gclient runhooks", <<>>, rc, "install_deps")
    /\ UNCHANGED <<fs, locals_sync>>
    /\ SyncUnchanged

\* lines 177-180
InstallScript ==
    IF config.target_os = "android" THEN "install-build-deps-android.sh"
    ELSE "install-build-deps.sh"

\* lines 176-188
SyncInstallDeps ==
    /\ pc = "install_deps"
    /\ IF config.install_build_deps
       THEN \E d \in Distros :
               /\ distro_name' = d
               /\ IF d = "debian" \/ d = "ubuntu"
                  THEN \E rc \in RetCodes :
                          CheckCall(<<>>, "sudo", <<InstallScript>>, rc, "exit")
                  ELSE Goto("exit") /\ log' = log
       ELSE Goto("exit") /\ UNCHANGED <<log, distro_name>>
    /\ UNCHANGED <<fs, rev, shallow, chromium_ref>>
    /\ SyncUnchanged

-----------------------------------------------------------------------------
(* prepare *)

\* patch set 1 is ungoogled-chromium, patch set 2 ungoogled-chromium-android
PatchSets == {1, 2}
PatchSetDir == <<"ungoogled-chromium", "ungoogled-chromium-android">>
CheckoutAt == <<"prepare", "checkout_uca">>
RmCacheAt == <<"rmcache_uc", "rmcache_uca">>
PruneAt == <<"prune_uc", "prune_uca">>
PatchesAt == <<"patches_uc", "patches_uca">>
DomSubAt == <<"domsub_uc", "domsub_uca">>

ConfigsPrepare == {[DefaultConfig EXCEPT !.command = "prepare", !.target_os = o] : o \in OS}

\* a cache left by an earlier run may exist
FsPrepare == {MkFs(BaseDirs, {}), MkFs(BaseDirs, {AbsPath(DOMSUB_CACHE)})}

PrepareUnchanged == UNCHANGED <<run_env, repo, locals_clean, locals_sync, locals_build>>

\* lines 198-206
PrepareCheckout(s) ==
    /\ pc = CheckoutAt[s]
    /\ \E rc \in RetCodes :
          /\ GitMaybeCheckout(<<>>, Rel(<<PatchSetDir[s]>>), rc,
                              IF s = 2 THEN "patch_fix"
                              ELSE IF config.target_os = "android" THEN CheckoutAt[2]
                              ELSE RmCacheAt[1])
          /\ fs' = IF rc = 0 THEN MakeDirs(fs, AbsPath(Rel(<<PatchSetDir[s]>>))) ELSE fs
    /\ PrepareUnchanged

\* lines 207-209
PreparePatchFix ==
    /\ pc = "patch_fix"
    /\ \E rc \in RetCodes :
          CheckCall(<<>>, "patch", <<"ungoogled-main-repo-fix.patch">>, rc, RmCacheAt[1])
    /\ UNCHANGED fs
    /\ PrepareUnchanged

PrepareRemoveCache_Skip(s) ==
    /\ pc = RmCacheAt[s]
    /\ Goto(PruneAt[s])
    /\ UNCHANGED <<fs, log>>
    /\ PrepareUnchanged
\* lines 211-213 and 233-234
PrepareRemoveCache(s) ==
    /\ pc = RmCacheAt[s]
    /\ IF Exists(DOMSUB_CACHE)
       THEN /\ fs' = RemoveFile(fs, AbsPath(DOMSUB_CACHE))
            /\ log' = Append(log, Ev("remove", "domsubcache.tar.gz", <<>>, 0))
       ELSE UNCHANGED <<fs, log>>
    /\ Goto(PruneAt[s])
    /\ PrepareUnchanged

\* lines 220-223 and 237-238: the exit status of the prune script is ignored
PreparePrune(s) ==
    /\ pc = PruneAt[s]
    /\ \E rc \in RetCodes : Run("prune_binaries.py", <<PatchSetDir[s]>>, rc, PatchesAt[s])
    /\ UNCHANGED fs
    /\ PrepareUnchanged

\* lines 224-225 and 239-240
PreparePatches(s) ==
    /\ pc = PatchesAt[s]
    /\ \E rc \in RetCodes : CheckCall(<<>>, "patches.py", <<PatchSetDir[s]>>, rc, DomSubAt[s])
    /\ UNCHANGED fs
    /\ PrepareUnchanged

\* lines 226-229 and 241-244: domain substitution writes the cache given by -c
PrepareDomSub(s) ==
    /\ pc = DomSubAt[s]
    /\ \E rc \in RetCodes :
          /\ CheckCall(<<>>, "domain_substitution.py", <<PatchSetDir[s]>>, rc,
                       IF s = 1 /\ config.target_os = "android" THEN RmCacheAt[2]
                       ELSE "exit")
          /\ fs' \in (IF rc = 0 THEN {WriteFile(fs, AbsPath(DOMSUB_CACHE))}
                      ELSE {fs, WriteFile(fs, AbsPath(DOMSUB_CACHE))})
    /\ PrepareUnchanged

-----------------------------------------------------------------------------
(* build: the GN flags *)

\* a dict is a sequence of <<key, value>> pairs with distinct keys, in
\* insertion order
Keys(d) == {d[i][1] : i \in DOMAIN d}
Lookup(d, k) == d[CHOOSE i \in DOMAIN d : d[i][1] = k][2]

\* d[k] = v: an existing key keeps its position and takes the new value
DictSet(d, k, v) ==
    IF k \in Keys(d)
    THEN [i \in DOMAIN d |-> IF d[i][1] = k THEN <<k, v>> ELSE d[i]]
    ELSE Append(d, <<k, v>>)

RECURSIVE DictUpdate(_, _)
\* d.update(e)
DictUpdate(d, e) ==
    IF e = <<>> THEN d
    ELSE DictUpdate(DictSet(d, Head(e)[1], Head(e)[2]), Tail(e))

Quote(s) == "\"" \o s \o "\""

\* config.parse_gn_flags: the key=value lines of flags.gn as a dict
ParseGnFlags(lines) == DictUpdate(<<>>, lines)

\* lines 270-279
CommonFlags ==
    << <<"is_component_build", "false">>,
       <<"is_unsafe_developer_build", "false">>,
       <<"proprietary_codecs", "true">>,
       <<"ffmpeg_branding", "\"Chrome\"">>,
       <<"use_gnome_keyring", "false">>,
       <<"exclude_unwind_tables", "false">>,
       <<"target_os", Quote(config.target_os)>>,
       <<"target_cpu", Quote(config.target_cpu)>> >>

\* lines 282-297
ModeFlags ==
    IF config.debug
    THEN << <<"is_debug", "true">>,
            <<"is_unsafe_developer_build", "true">>,
            <<"is_official_build", "false">>,
            <<"symbol_level", "1">>,
            <<"blink_symbol_level", "1">> >>
    ELSE << <<"is_debug", "false">>,
            <<"is_unsafe_developer_build", "false">>,
            <<"is_official_build", "true">>,
            <<"symbol_level", "0">>,
            <<"blink_symbol_level", "0">> >>

\* lines 300-303
CcWrapperFlags ==
    IF config.cc_wrapper # "None"
    THEN << <<"cc_wrapper", Quote(config.cc_wrapper)>> >>
    ELSE <<>>

MergeGnArgs_UserFirst ==
    DictUpdate(DictUpdate(DictUpdate(DictUpdate(config.gn_args, ParseGnFlags(flags_gn)),
                                     CommonFlags), ModeFlags), CcWrapperFlags)
\* lines 266-306
MergeGnArgs ==
    DictUpdate(DictUpdate(DictUpdate(DictUpdate(ParseGnFlags(flags_gn), CommonFlags),
                                     ModeFlags), CcWrapperFlags), config.gn_args)

\* lines 309-312: one "k=v" and a delimiter per flag
GnArgsStr(d) ==
    LET delimiter == IF config.direct_download THEN " " ELSE "\n"
    IN [i \in DOMAIN d |-> d[i][1] \o "=" \o d[i][2] \o delimiter]

\* keys a --gn-args override and flags.gn may define
UserKeyPool == <<"target_os", "is_debug", "enable_widevine", "is_official_build",
                 "target_cpu", "cc_wrapper">>
FileKeyPool == <<"enable_widevine", "is_debug", "google_api_key", "target_os">>

RECURSIVE PickPairs(_, _, _, _)
\* the pairs <<pool[i], val>> for the i in S, in the order of the pool
PickPairs(pool, S, val, i) ==
    IF i > Len(pool) THEN <<>>
    ELSE (IF i \in S THEN << <<pool[i], val>> >> ELSE <<>>)
         \o PickPairs(pool, S, val, i + 1)

UserDicts == {PickPairs(UserKeyPool, S, "\"user\"", 1) : S \in SUBSET (1..NumUserKeys)}
FileLines == {PickPairs(FileKeyPool, S, "\"\"", 1) : S \in SUBSET (1..NumFileKeys)}

-----------------------------------------------------------------------------
(* build *)

\* lines 252-255
OutputSubfolder ==
    (IF ~config.debug THEN "Release" ELSE "Debug")
    \o "_" \o config.target_os \o "_" \o config.target_cpu
OutputPath == Join(config.output_base_dir, Rel(<<OutputSubfolder>>))
OutputSrcPath == Join(Join(SRC_DIR, config.output_base_dir), Rel(<<OutputSubfolder>>))

\* the directory gn gen and autoninja, run in SRC_DIR, use as output_path
GnOutDir == AbsPathFrom(AbsPath(SRC_DIR), OutputPath)

BuildOutputDirs == {OUTPUT_BASE_DIR, Rel(<<"myout">>), Abs(<<"data", "out">>)}

ConfigsBuildWith(outs, ccs, overrides) ==
    {[DefaultConfig EXCEPT !.command = "build", !.target_os = o, !.debug = d,
                           !.direct_download = dd, !.cc_wrapper = cc,
                           !.output_base_dir = out, !.gn_args = g] :
        o \in OS, d \in BOOLEAN, dd \in BOOLEAN, cc \in ccs,
        out \in outs, g \in overrides}

\* build with any output directory, and without or with one GN override
ConfigsBuild ==
    ConfigsBuildWith(BuildOutputDirs, {"None"},
                     {<<>>, << <<"target_os", "\"user\"">> >>})

\* build into the default directory with any GN override and cc_wrapper
ConfigsGn == ConfigsBuildWith({OUTPUT_BASE_DIR}, {"None", "ccache"}, UserDicts)

BuildUnchanged == UNCHANGED <<run_env, repo, locals_clean, locals_sync>>

\* lines 256-259: a regular file in the way is removed, then makedirs
BuildMakeOutputDir ==
    /\ pc = "build"
    /\ LET a == AbsPath(OutputSrcPath)
           isfile == a \in DOMAIN fs /\ fs[a] = "file"
           fs1 == IF isfile THEN RemoveFile(fs, a) ELSE fs
           ev1 == IF isfile THEN <<Ev("remove", "output_src_path", a, 0)>> ELSE <<>>
       IN IF MakeDirsFails(fs1, a)
          THEN /\ fs' = fs1
               /\ log' = log \o ev1
               /\ Raise("NotADirectoryError")
          ELSE /\ fs' = MakeDirs(fs1, a)
               /\ log' = log \o ev1 \o
                         (IF a \in DOMAIN fs1 THEN <<>>
                          ELSE <<Ev("mkdir", "output_src_path", a, 0)>>)
               /\ Goto("build_gn_args")
    /\ UNCHANGED locals_build
    /\ BuildUnchanged

\* lines 263-312: read flags.gn, merge the layers, assemble the string
BuildGnArgs ==
    /\ pc = "build_gn_args"
    /\ IF ~Exists(FLAGS_GN)
       THEN Raise("No such file or directory: flags.gn") /\ UNCHANGED locals_build
       ELSE /\ gn_args' = MergeGnArgs
            /\ gn_args_str' = GnArgsStr(MergeGnArgs)
            /\ args_gn' = args_gn
            /\ Goto("build_depot_tools")
    /\ UNCHANGED <<fs, log>>
    /\ BuildUnchanged

\* lines 315-319
BuildCheckDepotTools ==
    /\ pc = "build_depot_tools"
    /\ IF ~Exists(DEPOT_TOOLS) \/ ~IsDir(DEPOT_TOOLS)
       THEN Raise("Cannot find depot_tools!")
       ELSE Goto("build_gn")
    /\ UNCHANGED <<fs, log, locals_build>>
    /\ BuildUnchanged

\* lines 322-330: bootstrap.py with the flags inline, or args.gn and gn gen
BuildRunGn ==
    /\ pc = "build_gn"
    /\ \E rc \in RetCodes :
          IF config.direct_download
          THEN /\ CheckCall(<<>>, "bootstrap.py", gn_args_str, rc, "build_ninja")
               /\ UNCHANGED <<fs, args_gn>>
          ELSE /\ fs' = WriteFile(fs, Append(AbsPath(OutputSrcPath), "args.gn"))
               /\ args_gn' = gn_args_str
               /\ CheckCall(<<Ev("write", "args.gn", AbsPath(OutputSrcPath), 0)>>,
                            "gn gen", GnOutDir, rc, "build_ninja")
    /\ UNCHANGED <<gn_args, gn_args_str>>
    /\ BuildUnchanged

\* lines 333-338
Targets ==
    IF config.target_os = "linux" THEN <<"chrome", "chrome_sandbox", "chromedriver">>
    ELSE IF config.target_os = "android" THEN <<"chrome_modern_public_bundle">>
    ELSE <<>>

BuildNinja_AnyOs ==
    /\ pc = "build_ninja"
    /\ \E rc \in RetCodes : CheckCall(<<>>, "autoninja", Targets, rc, "exit")
    /\ UNCHANGED <<fs, locals_build>>
    /\ BuildUnchanged
\* lines 333-340
BuildNinja ==
    /\ pc = "build_ninja"
    /\ IF config.target_os \in {"linux", "android"}
       THEN \E rc \in RetCodes : CheckCall(<<>>, "autoninja", Targets, rc, "exit")
       ELSE Raise("Target OS not supported") /\ log' = log
    /\ UNCHANGED <<fs, locals_build>>
    /\ BuildUnchanged

-----------------------------------------------------------------------------
(* __main__ *)

InitLocals ==
    /\ pc = "main"
    /\ log = <<>>
    /\ err = "none"
    /\ exitcode = -1
    /\ reply = "unset"
    /\ rev = "unset"
    /\ shallow = "unset"
    /\ chromium_ref = "unset"
    /\ distro_name = "unset"
    /\ gn_args = <<>>
    /\ gn_args_str = <<>>
    /\ args_gn = <<>>
    /\ prev = "none"

AnyRepo == [shallow |-> FALSE, rev |-> "rTag"]

InitOfInit ==
    /\ config \in ConfigsInit
    /\ fs \in FsInit
    /\ repo = AnyRepo
    /\ flags_gn = <<>>

InitSync ==
    /\ config \in ConfigsSync
    /\ fs \in FsDepot
    /\ repo \in Repos
    /\ flags_gn = <<>>

InitPrepare ==
    /\ config \in ConfigsPrepare
    /\ fs \in FsPrepare
    /\ repo = AnyRepo
    /\ flags_gn = <<>>

\* before build: depot_tools as in FsDepot; ungoogled-chromium checked out
\* (with flags.gn) or not; the output folder Release_linux_x64 absent, a
\* directory, a regular file, or below a regular file
FsBuild(c) ==
    LET base == AbsPath(Join(SRC_DIR, c.output_base_dir))
        leaf == Append(base, "Release_linux_x64")
    IN {MkFs(DOMAIN d \cup uc \cup out[1],
             {q \in DOMAIN d : d[q] = "file"}
                 \cup (IF uc = {} THEN {} ELSE {AbsPath(FLAGS_GN)}) \cup out[2]) :
            d \in FsDepot,
            uc \in {{}, Prefixes(AbsPath(FLAGS_GN))},
            out \in {<<{}, {}>>, <<Prefixes(leaf), {}>>, <<Prefixes(leaf), {leaf}>>,
                     <<Prefixes(base), {base}>>}}

InitBuild ==
    /\ config \in ConfigsBuild
    /\ fs \in FsBuild(config)
    /\ repo = AnyRepo
    /\ flags_gn \in {<<>>, << <<"enable_widevine", "\"\"">>, <<"is_debug", "\"\"">> >>}

\* a tree ready to build: depot_tools and ungoogled-chromium checked out
FsReady == MkFs(BaseDirs \cup {AbsPath(DEPOT_TOOLS)} \cup Prefixes(AbsPath(FLAGS_GN)),
                {AbsPath(FLAGS_GN)})

InitGn ==
    /\ InitLocals
    /\ config \in ConfigsGn
    /\ fs = FsReady
    /\ fs0 = fs
    /\ repo = AnyRepo
    /\ flags_gn \in FileLines

InitClean ==
    /\ config \in ConfigsClean
    /\ fs \in FsClean(config)
    /\ repo = AnyRepo
    /\ flags_gn = <<>>

Init ==
    /\ InitLocals
    /\ InitOfInit \/ InitSync \/ InitPrepare \/ InitBuild \/ InitClean
    /\ fs0 = fs

\* lines 384-393: the dispatch on args.command
Main ==
    /\ pc = "main"
    /\ pc' = config.command
    /\ UNCHANGED <<run_env, fs, repo, log, err, exitcode, locals_clean, locals_sync,
                   locals_build>>

\* the script is run again after a completed build, as clean with the same options
RunCleanAfterBuild ==
    /\ pc = "exit"
    /\ config.command = "build"
    /\ exitcode = 0
    /\ prev = "none"
    /\ config' = [config EXCEPT !.command = "clean"]
    /\ prev' = "build"
    /\ pc' = "main"
    /\ fs0' = fs
    /\ log' = <<>>
    /\ err' = "none"
    /\ exitcode' = -1
    /\ UNCHANGED <<fs, repo, flags_gn, locals_clean, locals_sync, locals_build>>

Next ==
    \/ Main
    \/ RunCleanAfterBuild
    \/ CleanCheck
    \/ CleanRm
    \/ InitDepotTools
    \/ InitCloneSrc
    \/ SyncCheckDepotTools
    \/ SetRevRevParse
    \/ SetRevIsShallow
    \/ SetRevDescribe
    \/ SetRevClean
    \/ SetRevReset
    \/ SetRevPull
    \/ SetRevCheckout
    \/ SetRevRevParseNew
    \/ SyncWriteGclient
    \/ SyncGclientSync
    \/ SyncRunHooks
    \/ SyncInstallDeps
    \/ \E s \in PatchSets : PrepareCheckout(s)
    \/ PreparePatchFix
    \/ \E s \in PatchSets : PrepareRemoveCache(s)
    \/ \E s \in PatchSets : PreparePrune(s)
    \/ \E s \in PatchSets : PreparePatches(s)
    \/ \E s \in PatchSets : PrepareDomSub(s)
    \/ BuildMakeOutputDir
    \/ BuildGnArgs
    \/ BuildCheckDepotTools
    \/ BuildRunGn
    \/ BuildNinja

Spec == Init /\ [][Next]_vars

\* one run of build on a tree ready to build, over all GN flag inputs
NextGn ==
    \/ Main
    \/ BuildMakeOutputDir
    \/ BuildGnArgs
    \/ BuildCheckDepotTools
    \/ BuildRunGn
    \/ BuildNinja

SpecGn == InitGn /\ [][NextGn]_vars

-----------------------------------------------------------------------------
(* Properties *)

Min(S) == CHOOSE x \in S : \A y \in S : x <= y
Max(S) == CHOOSE x \in S : \A y \in S : x >= y

Failed == {i \in Execs : log[i].rc # 0}

\* the external processes whose exit status build.py does not check
UncheckedCmds == {"prune_binaries.py", "git describe"}
CheckedFailed == {i \in Failed : log[i].cmd \notin UncheckedCmds}

PreflightErrs ==
    {"Cannot find depot_tools!", "Cannot set revision on a shallow repository!"}

\* C2 as stated: a finished run with a failing external process exits with
\* the status of the first one that failed; a run without a failing process
\* and without a pre-flight error exits with 0.
C2_ExitCodeMirrorsFirstFailure ==
    pc = "exit" =>
        IF Failed # {} THEN exitcode = log[Min(Failed)].rc
        ELSE (err \notin PreflightErrs => exitcode = 0)

\* C2 amended: a finished run exits with 1 exactly when an error ended it,
\* whatever the status of the failing process, and with 0 otherwise; a
\* checked process that returned non-zero always ends the run with an error,
\* and CalledProcessError is raised by nothing else.
C2_ExitOneOnError ==
    pc = "exit" =>
        /\ exitcode = IF err = "none" THEN 0 ELSE 1
        /\ (CheckedFailed # {}) <=> (err = "CalledProcessError")

\* a checked process returned 2 and the script exited with 1
C2_Witness ==
    /\ pc = "exit"
    /\ exitcode = 1
    /\ \E i \in CheckedFailed : log[i].rc = 2

-----------------------------------------------------------------------------
\* the layers of GN flags, lowest priority first
Layers == <<ParseGnFlags(flags_gn), CommonFlags, ModeFlags, CcWrapperFlags, config.gn_args>>
LayerKeys(L) == UNION {Keys(L[n]) : n \in DOMAIN L}
LastValue(L, k) == Lookup(L[Max({n \in DOMAIN L : k \in Keys(L[n])})], k)
ExpectedLine(L, k) ==
    k \o "=" \o LastValue(L, k) \o (IF config.direct_download THEN " " ELSE "\n")

\* text holds one line per key of the layers L, with the value of the last
\* layer that defines the key, and nothing else
EmittedOk(L, text) ==
    /\ Len(text) = Cardinality(LayerKeys(L))
    /\ \A k \in LayerKeys(L) :
          Cardinality({i \in DOMAIN text : text[i] = ExpectedLine(L, k)}) = 1

-----------------------------------------------------------------------------
RevChanging == {"git clean", "git reset --hard", "git pull", "git checkout"}
IsShallowQuery == "git rev-parse --is-shallow-repository"

\* C4: a revision-changing git command runs only after the shallowness query
\* succeeded and answered false; once the query answered true the run has
\* ended with the RuntimeError, no revision-changing command ran and HEAD is
\* where it was.
C4_ShallowChecked ==
    /\ \A i \in Execs :
          log[i].cmd \in RevChanging =>
             /\ \E j \in ExecsOf(IsShallowQuery) : j < i /\ log[j].rc = 0
             /\ shallow = "false"
             /\ ~repo.shallow
    /\ shallow = "true" =>
          /\ pc = "exit"
          /\ err = "Cannot set revision on a shallow repository!"
          /\ repo.rev = rev
          /\ \A i \in Execs : log[i].cmd \notin RevChanging

\* sync without --shallow on a shallow checkout that is not at the tag
C4_Witness ==
    /\ shallow = "true"
    /\ ~config.shallow
    /\ repo.rev # "rTag"
    /\ err = "Cannot set revision on a shallow repository!"

-----------------------------------------------------------------------------
DepotMissing == ~Exists(DEPOT_TOOLS) \/ ~IsDir(DEPOT_TOOLS)

\* C5 as stated: when the depot_tools error is raised, in sync or in build,
\* the command has invoked no process and changed nothing on disk.
C5_DepotCheckBeforeAnything ==
    err = "Cannot find depot_tools!" => log = <<>> /\ fs = fs0

\* C5 amended: with depot_tools missing, sync does nothing at all and build
\* invokes no external process and writes no file, both end with the
\* depot_tools error unless another error ended build earlier; build has by
\* then prepared its output folder (a regular file in its place removed,
\* the directories created).
C5_DepotCheck ==
    /\ (config.command = "sync" /\ DepotMissing) =>
          /\ log = <<>> /\ fs = fs0
          /\ pc = "exit" => err = "Cannot find depot_tools!"
    /\ (config.command = "build" /\ DepotMissing) =>
          /\ \A i \in DOMAIN log :
                log[i].op \in {"remove", "mkdir"} /\ log[i].cmd = "output_src_path"
          /\ pc = "exit" => err \in {"Cannot find depot_tools!", "NotADirectoryError",
                                     "No such file or directory: flags.gn"}
    /\ err = "Cannot find depot_tools!" => DepotMissing

\* build raised the depot_tools error after it had created the output folder
C5_Witness ==
    /\ config.command = "build"
    /\ err = "Cannot find depot_tools!"
    /\ \E i \in DOMAIN log : log[i].op = "mkdir"

-----------------------------------------------------------------------------
\* the base directory below which build put its output folder and args.gn
BuildBaseDir == AbsPath(Join(SRC_DIR, config.output_base_dir))

\* C6: after a completed build and a clean with the same options that ended
\* without the user declining, the directory in which build created its
\* output folder does not exist.
C6_CleanRemovesBuildOutput ==
    (/\ prev = "build"
     /\ config.command = "clean"
     /\ pc = "exit"
     /\ err = "none"
     /\ reply \in {"unset", "y"})
    => BuildBaseDir \notin DOMAIN fs

-----------------------------------------------------------------------------
Writes(name) == {i \in DOMAIN log : log[i].op = "write" /\ log[i].cmd = name}
SetRevisionCmds ==
    {"git rev-parse HEAD", IsShallowQuery, "git describe"} \cup RevChanging

\* C7: in sync, .gclient is written with the configured target OS before
\* gclient sync is invoked and only once set_revision has returned;
\* gclient runhooks follows a successful gclient sync; the install script runs
\* under sudo at most once, after a successful runhooks, only with
\* install_build_deps set on debian or ubuntu, and it is the android script
\* exactly when the target OS is android.
C7_SyncOrder ==
    /\ \A i \in Writes(".gclient") :
          /\ log[i].arg = GclientContent(config.target_os)
          /\ chromium_ref # "unset"
          /\ \A j \in Execs : log[j].cmd \in SetRevisionCmds => j < i
    /\ \A i \in ExecsOf("gclient sync") : \E j \in Writes(".gclient") : j < i
    /\ \A i \in ExecsOf("gclient runhooks") :
          \E j \in ExecsOf("gclient sync") : j < i /\ log[j].rc = 0
    /\ Cardinality(ExecsOf("sudo")) <= 1
    /\ \A i \in ExecsOf("sudo") :
          /\ \E j \in ExecsOf("gclient runhooks") : j < i /\ log[j].rc = 0
          /\ config.install_build_deps
          /\ distro_name \in {"debian", "ubuntu"}
          /\ (log[i].arg = <<"install-build-deps-android.sh">>)
                <=> (config.target_os = "android")
          /\ log[i].arg \in {<<"install-build-deps-android.sh">>,
                             <<"install-build-deps.sh">>}

\* sync for android ran the android install script on ubuntu
C7_Witness ==
    \E i \in ExecsOf("sudo") :
        /\ log[i].arg = <<"install-build-deps-android.sh">>
        /\ distro_name = "ubuntu"
        /\ pc = "exit"

-----------------------------------------------------------------------------
ExecsOn(cmd, s) == {i \in ExecsOf(cmd) : log[i].arg = <<PatchSetDir[s]>>}
Checkouts(s) ==
    {i \in ExecsOf("git_maybe_checkout") :
        log[i].arg = AbsPath(Rel(<<PatchSetDir[s]>>))}

\* C8: in prepare, for each patch set, domain substitution follows patch
\* application, which follows binary pruning, which follows the checkout of
\* the patch set's repository; the android patch set is processed only for
\* target OS android and after the first one; whenever domain substitution
\* is about to be invoked, domsubcache.tar.gz does not exist.
C8_PrepareOrder ==
    /\ \A s \in PatchSets :
          /\ \A i \in ExecsOn("domain_substitution.py", s) :
                \E j \in ExecsOn("patches.py", s) : j < i /\ log[j].rc = 0
          /\ \A i \in ExecsOn("patches.py", s) :
                \E j \in ExecsOn("prune_binaries.py", s) : j < i
          /\ \A i \in ExecsOn("prune_binaries.py", s) :
                \E j \in Checkouts(s) : j < i /\ log[j].rc = 0
          /\ Cardinality(ExecsOn("domain_substitution.py", s)) <= 1
          /\ Cardinality(ExecsOn("patches.py", s)) <= 1
          /\ Cardinality(ExecsOn("prune_binaries.py", s)) <= 1
    /\ \A i \in Checkouts(2) \cup ExecsOn("prune_binaries.py", 2) :
          config.target_os = "android"
    /\ \A i \in ExecsOn("prune_binaries.py", 2) :
          \E j \in ExecsOn("domain_substitution.py", 1) : j < i /\ log[j].rc = 0
    /\ (\E s \in PatchSets : pc = DomSubAt[s]) => ~Exists(DOMSUB_CACHE)

\* the second domain substitution is about to run, after the first one
\* wrote the cache
C8_Witness ==
    /\ pc = DomSubAt[2]
    /\ \E i \in ExecsOn("domain_substitution.py", 1) : log[i].rc = 0
    /\ \E i \in DOMAIN log : i > 4 /\ log[i].op = "remove"

-----------------------------------------------------------------------------
Generator == IF config.direct_download THEN "bootstrap.py" ELSE "gn gen"

-----------------------------------------------------------------------------
CleanDir == AbsPath(config.output_base_dir)

\* C10: clean runs rm -rf on the output directory only if that directory
\* existed and either its expanded absolute path is that of the default
\* output directory or the reply to the prompt was exactly y; after any
\* other reply, or when the directory did not exist, clean has invoked
\* nothing and the disk is as it was.
C10_CleanConfirmed ==
    config.command = "clean" =>
        /\ \A i \in ExecsOf("rm -rf") :
              /\ log[i].arg = CleanDir
              /\ CleanDir \in DOMAIN fs0
              /\ \/ ShellExpandAbsPath(config.output_base_dir)
                        = ShellExpandAbsPath(OUTPUT_BASE_DIR)
                 \/ reply = "y"
        /\ (reply \notin {"unset", "y"} \/ CleanDir \notin DOMAIN fs0) =>
              log = <<>> /\ fs = fs0

\* a directory other than the default was removed after the reply y
C10_Witness ==
    /\ config.command = "clean"
    /\ reply = "y"
    /\ \E i \in ExecsOf("rm -rf") : log[i].rc = 0
    /\ CleanDir \in DOMAIN fs0
    /\ CleanDir \notin DOMAIN fs

====
